---------------------------- MODULE Spec2Model ----------------------------
(***************************************************************************)
(* A model of the labelled table that Pandas/Pandas.ipynb builds, selects  *)
(* from and assigns into.  Every operator below is the pandas call of one  *)
(* notebook statement; a table is a DataFrame object on a heap of objects, *)
(* the notebook's names df and df2 are references into that heap.          *)
(*                                                                         *)
(* Encoding of scalars: every cell is an integer.  Dates are day numbers   *)
(* (2013-01-01 is 1), the strings of column E are the numbers they spell,  *)
(* and NaN is one integer outside every set values are drawn from.         *)
(***************************************************************************)
EXTENDS Integers, Sequences, FiniteSets, TLC

VARIABLES store,   \* the heap: a sequence of DataFrame objects, addressed 1..Len
          df,      \* the address the name df is bound to
          df2,     \* the address the name df2 is bound to, 0 while unbound
          res,     \* the value of the last selection expression (a DataFrame)
          last,    \* the last statement executed: its call, arguments, outcome
          nops     \* the number of statements executed so far

vars == <<store, df, df2, res, last, nops>>

---------------------------------------------------------------------------
(* Bounds of the model.                                                    *)

\* rows of the generic tables (the notebook uses periods=6)
NRows == 3
\* statements executed after construction
MaxOps == 2

---------------------------------------------------------------------------
(* Scalars.                                                                *)

\* np.nan: the missing value
NaN == -1000
\* the strings 'one' .. 'four' of column E
one == 1
two == 2
three == 3
four == 4

\* list('ABCD')
ABCD == <<"A", "B", "C", "D">>

Range(s) == {s[i] : i \in 1..Len(s)}

\* pd.date_range(start, periods=n): n consecutive days from start
date_range(start, periods) == [i \in 1..periods |-> start + i - 1]

\* pd.Series(values, index=index)
Series(values, index) == [index |-> index, values |-> values]

\* Index.get_loc on an index without duplicates: the position of a label
has_label(labels, key) == \E i \in 1..Len(labels) : labels[i] = key
get_loc(labels, key) == CHOOSE i \in 1..Len(labels) : labels[i] = key

\* np.array([v] * n)
full(n, v) == [i \in 1..n |-> v]

\* pd.DataFrame(values, index=index, columns=columns), values row-major;
\* the frame keeps one array per column
DataFrame(values, index, columns) ==
    [index   |-> index,
     columns |-> columns,
     data    |-> [j \in 1..Len(columns) |-> [i \in 1..Len(index) |-> values[i][j]]]]

\* df.shape
nrows(t) == Len(t.index)
ncols(t) == Len(t.columns)

\* an outcome of a statement: the frame afterwards and the exception raised
Ok(t) == [t |-> t, err |-> "none"]
Raise(t, e) == [t |-> t, err |-> e]

---------------------------------------------------------------------------
(* Setting: the statements of the notebook's "Setting" section and of      *)
(* df2['E'] = [...], as functions from a frame to an outcome.              *)

\* reindex without the join on labels: the values of s by position
reindex_positional(s, index) ==
    [i \in 1..Len(index) |-> IF i <= Len(s.values) THEN s.values[i] ELSE NaN]

\* Series.reindex(index): the values of s laid out along index, NaN where s
\* has no such label; labels of s that index lacks are dropped
reindex(s, index) ==
    [i \in 1..Len(index) |->
        IF has_label(s.index, index[i])
        THEN s.values[get_loc(s.index, index[i])]
        ELSE NaN]

\* storing a column by appending it, also under a label the frame has
set_column_append(t, c, arr) ==
    [t EXCEPT !.columns = Append(@, c), !.data = Append(@, arr)]

\* the frame with column c holding arr: replaced in place when c is a column,
\* appended as the last column when it is not
set_column(t, c, arr) ==
    IF has_label(t.columns, c)
    THEN [t EXCEPT !.data[get_loc(t.columns, c)] = arr]
    ELSE [t EXCEPT !.columns = Append(@, c), !.data = Append(@, arr)]

\* df[c] = s for a Series s: aligned to the frame's index, then stored
setitem_series(t, c, s) == Ok(set_column(t, c, reindex(s, t.index)))

\* df[c] = arr that stores what fits and then finds the lengths differ
setitem_array_partial(t, c, arr) ==
    LET new == set_column(t, c,
                  [i \in 1..nrows(t) |-> IF i <= Len(arr) THEN arr[i] ELSE NaN])
    IN  IF Len(arr) # nrows(t) THEN Raise(new, "ValueError") ELSE Ok(new)

\* df[c] = arr for a list or an array: stored by position; a length other
\* than the number of rows raises ValueError before anything is stored
setitem_array(t, c, arr) ==
    IF Len(arr) # nrows(t)
    THEN Raise(t, "ValueError")
    ELSE Ok(set_column(t, c, arr))

\* enlargement that appends the new row label and leaves the columns short
enlarge_index_only(t, r, c) ==
    LET tc == IF has_label(t.columns, c) THEN t
              ELSE set_column(t, c, full(nrows(t), NaN))
    IN  IF has_label(tc.index, r) THEN tc
        ELSE [tc EXCEPT !.index = Append(@, r)]

\* setting with enlargement: the frame with a column c and a row r, each
\* appended and filled with NaN when missing
enlarge(t, r, c) ==
    LET tc == IF has_label(t.columns, c) THEN t
              ELSE set_column(t, c, full(nrows(t), NaN))
    IN  IF has_label(tc.index, r) THEN tc
        ELSE [tc EXCEPT !.index = Append(@, r),
                        !.data = [j \in 1..ncols(tc) |-> Append(tc.data[j], NaN)]]

\* df.at[r, c] = v: one cell by label; a missing label enlarges the frame
at_set(t, r, c, v) ==
    LET te == enlarge(t, r, c)
    IN  Ok([te EXCEPT !.data[get_loc(te.columns, c)][get_loc(te.index, r)] = v])

\* iat with its positions read as one-based
iat_set_one_based(t, i, j, v) ==
    IF i < 1 \/ i > nrows(t) \/ j < 1 \/ j > ncols(t)
    THEN Raise(t, "IndexError")
    ELSE Ok([t EXCEPT !.data[j][i] = v])

\* df.iat[i, j] = v: one cell by zero-based position; a position outside the
\* frame raises IndexError
iat_set(t, i, j, v) ==
    IF i < 0 \/ i >= nrows(t) \/ j < 0 \/ j >= ncols(t)
    THEN Raise(t, "IndexError")
    ELSE Ok([t EXCEPT !.data[j + 1][i + 1] = v])

\* the positions a row key of .loc selects: every row for ':' and, for a
\* label slice lo:hi, the rows from lo's position to hi's, both included
loc_rows(t, key) ==
    IF key.all THEN 1..nrows(t)
    ELSE get_loc(t.index, key.lo)..get_loc(t.index, key.hi)

\* df.loc[key, c] = arr for a column c of the frame: the selected rows of c
\* take arr in order; an array of another length raises ValueError and
\* stores nothing
loc_set(t, key, c, arr) ==
    LET rows == loc_rows(t, key)
        lo   == IF rows = {} THEN 1 ELSE CHOOSE i \in rows : \A k \in rows : i <= k
        old  == t.data[get_loc(t.columns, c)]
    IN  IF Len(arr) # Cardinality(rows)
        THEN Raise(t, "ValueError")
        ELSE Ok(set_column(t, c,
                   [i \in 1..nrows(t) |->
                       IF i \in rows THEN arr[i - lo + 1] ELSE old[i]]))

\* df.iat[i, j]: the cell at a zero-based position
iat_get(t, i, j) == t.data[j + 1][i + 1]

\* df.at[r, c]: the cell at a row label and a column label
at_get(t, r, c) == t.data[get_loc(t.columns, c)][get_loc(t.index, r)]

\* DataFrame.copy(): a new frame object with the same labels and values
copy(t) == [index |-> t.index, columns |-> t.columns, data |-> t.data]

\* df2 = df: the name df2 bound to the object df names
copy_alias(st, a, b) == [store |-> st, ref |-> a]

\* df2 = df.copy() on the heap st, df at address a and df2 at address b (0
\* while unbound): the copy is a new object, which takes the place of the
\* object df2 named before (nothing else refers to it) and is else allocated
\* at the end of the heap
copy_stmt(st, a, b) ==
    IF b # 0 /\ b # a
    THEN [store |-> [st EXCEPT ![b] = copy(st[a])], ref |-> b]
    ELSE [store |-> Append(st, copy(st[a])), ref |-> Len(st) + 1]

---------------------------------------------------------------------------
(* The notebook as a state machine: construction, then any statements of   *)
(* the Setting section, on df or on its copy df2, with arguments drawn     *)
(* from the sets below.                                                    *)

\* np.random.randn(n, m): a matrix of floats.  The model draws it from the
\* samples below, one for every choice of a sign per column; the entries of a
\* sample are nonzero and pairwise distinct, and none is a value the
\* statements below write.
randn(n, m) ==
    {[i \in 1..n |-> [j \in 1..m |-> sign[j] * (10 * i + j)]] :
        sign \in [1..m -> {-1, 1}]}

\* a frame with no rows and no columns: the value of res before any selection
NoFrame == [index |-> <<>>, columns |-> <<>>, data |-> <<>>]

\* the names a statement can be applied through
Names == {"df", "df2"}
Resolve(n) == IF n = "df" THEN df ELSE df2

\* arguments of the statements
\* s1 = pd.Series([1..k], index=pd.date_range(start, periods=k))
SeriesArgs ==
    {Series([i \in 1..k |-> i], date_range(start, k)) :
        start \in 1..2, k \in {NRows - 1, NRows}}
\* np.array([5] * n), of the frame's length and of lengths around it
ArrayArgs == {full(n, 5) : n \in {NRows - 1, NRows, NRows + 1}}
\* row labels: those of the frame and one it does not have
RowLabels == 1..(NRows + 1)
\* column labels assigned to: an old column and a new one
SetItemCols == {"A", "F"}
ArrayCols == {"D", "E"}
\* row keys of .loc: ':' and the label slices lo:hi
RowKeys ==
    {[all |-> TRUE, lo |-> 0, hi |-> 0]} \cup
    {[all |-> FALSE, lo |-> l, hi |-> h] : l \in {2}, h \in {2, 3}}

\* the record of a statement: the call, the name it went through, its
\* arguments, the exception it raised and the heap it started from
Stmt(op, n, args, err) ==
    [op |-> op, on |-> n, args |-> args, err |-> err, before |-> store]

\* a statement that assigns into the frame n names, with outcome out
Assign(op, n, args, out) ==
    /\ store' = [store EXCEPT ![Resolve(n)] = out.t]
    /\ last' = Stmt(op, n, args, out.err)
    /\ nops' = nops + 1
    /\ UNCHANGED <<df, df2, res>>

Init ==
    /\ \E values \in randn(NRows, Len(ABCD)) :
          store = <<DataFrame(values, date_range(1, NRows), ABCD)>>
    /\ df = 1
    /\ df2 = 0
    /\ res = NoFrame
    /\ last = [op |-> "DataFrame", on |-> "df", args |-> <<>>, err |-> "none",
               before |-> <<>>]
    /\ nops = 0

\* df2 = df.copy()
Copy ==
    /\ nops < MaxOps
    /\ LET c == copy_stmt(store, df, df2)
       IN  /\ store' = c.store
           /\ df2' = c.ref
    /\ last' = Stmt("copy", "df", <<>>, "none")
    /\ nops' = nops + 1
    /\ UNCHANGED <<df, res>>

\* df['F'] = s1
SetItemSeries ==
    \E n \in Names, c \in SetItemCols, s \in SeriesArgs :
        /\ nops < MaxOps
        /\ Resolve(n) # 0
        /\ Assign("setitem_series", n, [c |-> c, s |-> s],
                  setitem_series(store[Resolve(n)], c, s))

\* df2['E'] = ['one', 'one', 'two', 'three', 'four', 'three']
SetItemArray ==
    \E n \in Names, c \in ArrayCols, arr \in ArrayArgs :
        /\ nops < MaxOps
        /\ Resolve(n) # 0
        /\ Assign("setitem_array", n, [c |-> c, arr |-> arr],
                  setitem_array(store[Resolve(n)], c, arr))

\* df.at[dates[0], 'A'] = 0
AtSet ==
    \E n \in Names, r \in RowLabels, c \in SetItemCols :
        /\ nops < MaxOps
        /\ Resolve(n) # 0
        /\ Assign("at_set", n, [r |-> r, c |-> c, v |-> 0],
                  at_set(store[Resolve(n)], r, c, 0))

\* df.iat[0, 1] = 0
IatSet ==
    \E n \in Names, i \in 0..NRows, j \in 0..Len(ABCD) :
        /\ nops < MaxOps
        /\ Resolve(n) # 0
        /\ Assign("iat_set", n, [i |-> i, j |-> j, v |-> 0],
                  iat_set(store[Resolve(n)], i, j, 0))

\* df.loc[:, 'D'] = np.array([5] * len(df))
LocSet ==
    \E n \in Names, key \in RowKeys, c \in ArrayCols, arr \in ArrayArgs :
        /\ nops < MaxOps
        /\ Resolve(n) # 0
        /\ has_label(store[Resolve(n)].columns, c)
        /\ key.all \/ (has_label(store[Resolve(n)].index, key.lo)
                       /\ has_label(store[Resolve(n)].index, key.hi))
        /\ Assign("loc_set", n, [key |-> key, c |-> c, arr |-> arr],
                  loc_set(store[Resolve(n)], key, c, arr))

Next == Copy \/ SetItemSeries \/ SetItemArray \/ AtSet \/ IatSet \/ LocSet

Spec == Init /\ [][Next]_vars

---------------------------------------------------------------------------
(* Properties of the Setting statements, checked under Spec.               *)

\* the frame a name refers to now, and the one it referred to before the
\* last statement
Now(n) == store[Resolve(n)]
Before(n) == last.before[Resolve(n)]

NoDuplicates(labels) ==
    \A i, k \in 1..Len(labels) : labels[i] = labels[k] => i = k

\* C1: in every reachable state every frame has one array per column label,
\* every array has as many entries as there are row labels, and no label
\* occurs twice among the row labels or among the column labels.
C1_ShapeAndUniqueLabels ==
    \A a \in 1..Len(store) :
        LET t == store[a]
        IN  /\ Len(t.data) = Len(t.columns)
            /\ \A j \in 1..Len(t.data) : Len(t.data[j]) = Len(t.index)
            /\ NoDuplicates(t.index)
            /\ NoDuplicates(t.columns)

\* C1 witness: .at with a row label and a column label the frame lacked has
\* enlarged it by a row and a column
C1_Witness ==
    /\ last.op = "at_set"
    /\ nrows(Now(last.on)) = NRows + 1
    /\ ncols(Now(last.on)) = Len(ABCD) + 1

C6_CopyIsIndependent ==
    (df2 # 0 /\ last.op # "copy") =>
        /\ last.on = "df2" => Now("df") = Before("df")
        /\ last.on = "df" => Now("df2") = Before("df2")

\* C6 witness: an assignment through df2 went through and the two frames
\* differ
C6_Witness ==
    /\ df2 # 0
    /\ last.on = "df2"
    /\ last.op \in {"setitem_series", "setitem_array", "at_set", "iat_set", "loc_set"}
    /\ last.err = "none"
    /\ Now("df2") # Now("df")
    /\ Now("df") = Before("df")

\* C7: in every frame the cell read by the i-th row label and the j-th column
\* label is the cell read at position (i, j); a value written by label is
\* read back at the label's position and a value written by position is read
\* back by the labels at that position.
C7_LabelAndPositionAgree ==
    /\ \A a \in 1..Len(store) :
          LET t == store[a]
          IN  \A i \in 1..nrows(t), j \in 1..ncols(t) :
                  at_get(t, t.index[i], t.columns[j]) = iat_get(t, i - 1, j - 1)
    /\ last.op = "at_set" =>
          LET t == Now(last.on)
          IN  \E i \in 1..nrows(t), j \in 1..ncols(t) :
                  /\ t.index[i] = last.args.r
                  /\ t.columns[j] = last.args.c
                  /\ iat_get(t, i - 1, j - 1) = last.args.v
    /\ (last.op = "iat_set" /\ last.err = "none") =>
          LET t == Now(last.on)
          IN  /\ last.args.i < nrows(t)
              /\ last.args.j < ncols(t)
              /\ at_get(t, t.index[last.args.i + 1], t.columns[last.args.j + 1])
                     = last.args.v

\* C7 witness: a value written by position into a frame whose last row was
\* added by an earlier .at
C7_Witness ==
    /\ last.op = "iat_set"
    /\ last.err = "none"
    /\ nrows(Now(last.on)) = NRows + 1
    /\ last.args.i = NRows
    /\ at_get(Now(last.on), NRows + 1, Now(last.on).columns[last.args.j + 1]) = 0

---------------------------------------------------------------------------
(* Getting: the selection expressions of the notebook, as functions from a *)
(* frame to the frame they evaluate to.                                    *)

\* the rows of t at the positions rows[1], rows[2], ... and the columns at the
\* positions cols[1], cols[2], ..., in that order, as a new frame
take(t, rows, cols) ==
    [index   |-> [k \in 1..Len(rows) |-> t.index[rows[k]]],
     columns |-> [m \in 1..Len(cols) |-> t.columns[cols[m]]],
     data    |-> [m \in 1..Len(cols) |->
                    [k \in 1..Len(rows) |-> t.data[cols[m]][rows[k]]]]]

\* the positions lo, lo+1, ..., hi as a sequence (empty when hi < lo)
span(lo, hi) == [k \in 1..(hi - lo + 1) |-> lo + k - 1]

\* len-clamping of a slice bound, as Python slices do
clamp(i, n) == IF i > n THEN n ELSE i

\* .loc with the half-open row range of a Python slice
loc_half_open(t, lo, hi, cols) ==
    take(t, span(get_loc(t.index, lo), get_loc(t.index, hi) - 1),
            [m \in 1..Len(cols) |-> get_loc(t.columns, cols[m])])

\* df.loc[lo:hi, cols]: the rows from label lo to label hi, both included, and
\* the listed columns
loc(t, lo, hi, cols) ==
    take(t, span(get_loc(t.index, lo), get_loc(t.index, hi)),
            [m \in 1..Len(cols) |-> get_loc(t.columns, cols[m])])

\* df.iloc[i:j, ci:cj]: the rows at zero-based positions i .. j-1 and the
\* columns at ci .. cj-1
iloc(t, i, j, ci, cj) ==
    take(t, span(clamp(i, nrows(t)) + 1, clamp(j, nrows(t))),
            span(clamp(ci, ncols(t)) + 1, clamp(cj, ncols(t))))

\* df[c]: one column
getitem(t, c) == t.data[get_loc(t.columns, c)]

\* col >= 0 in place of col > 0
ge0(col) == [i \in 1..Len(col) |-> col[i] # NaN /\ col[i] >= 0]

\* col > 0, elementwise; a comparison with NaN is False
gt0(col) == [i \in 1..Len(col) |-> col[i] # NaN /\ col[i] > 0]

\* isin with the values read as the ends of a range
isin_between(col, values) ==
    [i \in 1..Len(col) |->
        /\ \E v \in values : v <= col[i]
        /\ \E v \in values : col[i] <= v]

\* Series.isin(values), elementwise
isin(col, values) == [i \in 1..Len(col) |-> col[i] \in values]

\* df[mask] for a boolean Series over the rows: the rows where mask is True
getitem_mask(t, mask) ==
    take(t, SelectSeq(span(1, nrows(t)), LAMBDA i : mask[i]), span(1, ncols(t)))

\* df[df > 0]: the frame with every cell that is not > 0 replaced by NaN
where_gt0(t) ==
    [t EXCEPT !.data = [j \in 1..ncols(t) |-> [i \in 1..nrows(t) |->
                           IF gt0(t.data[j])[i] THEN t.data[j][i] ELSE NaN]]]

\* the orders of the positions in P, as sequences
Orders(P) ==
    {p \in [1..Cardinality(P) -> P] :
        \A k, l \in 1..Cardinality(P) : p[k] = p[l] => k = l}

\* the orders argsort(kind='quicksort') can return for the positions P of
\* col: ascending by value (descending when asked), the positions of equal
\* values in any order, because quicksort is not a stable sort
RECURSIVE argsort(_, _, _)
argsort(col, P, ascending) ==
    IF P = {} THEN {<<>>}
    ELSE LET first == CHOOSE i \in P : \A k \in P :
                          IF ascending THEN col[i] <= col[k] ELSE col[i] >= col[k]
             ties  == {i \in P : col[i] = col[first]}
         IN  {g \o rest : g \in Orders(ties),
                          rest \in argsort(col, P \ ties, ascending)}

\* the reverse of a sequence
reversed(q) == [k \in 1..Len(q) |-> q[Len(q) + 1 - k]]

\* nargsort that sorts descending by reversing the ascending order, rows with
\* NaN included
nargsort_reversed(col, ascending) ==
    LET nan_idx == SelectSeq(span(1, Len(col)), LAMBDA i : col[i] = NaN)
        non_nan == {i \in 1..Len(col) : col[i] # NaN}
    IN  {IF ascending THEN p \o nan_idx ELSE reversed(p \o nan_idx) :
            p \in argsort(col, non_nan, TRUE)}

\* nargsort(col, kind='quicksort', ascending, na_position='last'): the row
\* orders the sort can return: the rows without NaN as argsort orders them,
\* then the rows with NaN in their original order
nargsort(col, ascending) ==
    LET nan_idx == SelectSeq(span(1, Len(col)), LAMBDA i : col[i] = NaN)
        non_nan == {i \in 1..Len(col) : col[i] # NaN}
    IN  {p \o nan_idx : p \in argsort(col, non_nan, ascending)}

\* df.sort_values(by=c, ascending=ascending): the frames it can return
sort_values(t, c, ascending) ==
    {take(t, p, span(1, ncols(t))) : p \in nargsort(getitem(t, c), ascending)}

---------------------------------------------------------------------------
(* The selection expressions as a state machine: a frame is drawn, and any *)
(* selection is evaluated on it; res is its value.                         *)

\* pd.date_range('20130101', periods=6)
Periods == 6

\* the cells of the small frames selections are evaluated on: a value that
\* is not > 0, one that is, and the missing value
QVals == {0, 1, NaN}

\* frames over the days 1..NRows with columns A and B and any cells of QVals
SmallFrames ==
    {DataFrame(values, date_range(1, NRows), <<"A", "B">>) :
        values \in [1..NRows -> [1..2 -> QVals]]}

\* the notebook's dates, df, and df2 with its column E
dates == date_range(1, Periods)
NotebookFrames == {DataFrame(values, dates, ABCD) : values \in randn(Periods, Len(ABCD))}
E == <<one, one, two, three, four, three>>

\* arguments of the selections
LocCols == {<<"A", "B">>, <<"B">>}
ColSlices == {<<0, 2>>, <<1, 2>>}
IsinArgs == SUBSET {one, two, four}

\* a selection through the name n with value r: res takes the value and no
\* frame changes.  A selection leaves nothing behind for the next one, so a
\* behaviour evaluates one selection (nops = 0) on the frame drawn.
Select(op, n, args, r) ==
    /\ res' = r
    /\ last' = Stmt(op, n, args, "none")
    /\ nops' = nops + 1
    /\ UNCHANGED <<store, df, df2>>

InitSelect ==
    /\ \/ \E t \in SmallFrames : store = <<t>> /\ df2 = 0
       \/ \E t \in NotebookFrames :
             store = <<t, setitem_array(copy(t), "E", E).t>> /\ df2 = 2
    /\ df = 1
    /\ res = NoFrame
    /\ last = [op |-> "DataFrame", on |-> "df", args |-> <<>>, err |-> "none",
               before |-> <<>>]
    /\ nops = 0

\* df.loc['20130102':'20130104', ['A', 'B']]
Loc ==
    \E n \in Names, cols \in LocCols :
        /\ nops = 0
        /\ Resolve(n) # 0
        /\ \E lo, hi \in Range(store[Resolve(n)].index) :
              Select("loc", n, [lo |-> lo, hi |-> hi, cols |-> cols],
                     loc(store[Resolve(n)], lo, hi, cols))

\* df.iloc[3:5, 0:2]
Iloc ==
    \E n \in Names, cs \in ColSlices :
        /\ nops = 0
        /\ Resolve(n) # 0
        /\ \E i, j \in 0..(nrows(store[Resolve(n)]) + 1) :
              Select("iloc", n, [i |-> i, j |-> j, ci |-> cs[1], cj |-> cs[2]],
                     iloc(store[Resolve(n)], i, j, cs[1], cs[2]))

\* df2[df2['E'].isin(['two', 'four'])]
IsinFilter ==
    \E n \in Names, values \in IsinArgs :
        /\ nops = 0
        /\ Resolve(n) # 0
        /\ \E c \in Range(store[Resolve(n)].columns) :
              Select("isin", n, [c |-> c, values |-> values],
                     getitem_mask(store[Resolve(n)],
                                  isin(getitem(store[Resolve(n)], c), values)))

\* df[df.A > 0]
MaskFilter ==
    \E n \in Names :
        /\ nops = 0
        /\ Resolve(n) # 0
        /\ \E c \in Range(store[Resolve(n)].columns) :
              Select("mask", n, [c |-> c],
                     getitem_mask(store[Resolve(n)],
                                  gt0(getitem(store[Resolve(n)], c))))

\* df[df > 0]
Where ==
    \E n \in Names :
        /\ nops = 0
        /\ Resolve(n) # 0
        /\ Select("where", n, <<>>, where_gt0(store[Resolve(n)]))

\* df.sort_values(by='B')
SortValues ==
    \E n \in Names, ascending \in BOOLEAN :
        /\ nops = 0
        /\ Resolve(n) # 0
        /\ \E c \in Range(store[Resolve(n)].columns) :
              \E r \in sort_values(store[Resolve(n)], c, ascending) :
                  Select("sort_values", n, [c |-> c, ascending |-> ascending], r)

NextSelect == Loc \/ Iloc \/ IsinFilter \/ MaskFilter \/ Where \/ SortValues

SpecSelect == InitSelect /\ [][NextSelect]_vars

---------------------------------------------------------------------------
(* Properties of the selection expressions, checked under SpecSelect.      *)

\* r consists of the rows of t at the positions in P, in t's order, under the
\* column labels cols, every cell as it is in t
RowsInOrder(r, t, P, cols) ==
    /\ r.columns = cols
    /\ Len(r.data) = Len(cols)
    /\ Len(r.index) = Cardinality(P)
    /\ \A k \in 1..Len(r.index) :
          \E i \in P :
              /\ Cardinality({m \in P : m < i}) = k - 1
              /\ r.index[k] = t.index[i]
              /\ \A c \in 1..Len(cols) :
                    /\ Len(r.data[c]) = Len(r.index)
                    /\ \E j \in 1..ncols(t) :
                          t.columns[j] = cols[c] /\ r.data[c][k] = t.data[j][i]

\* C4: for row labels lo and hi at positions i <= j, df.loc[lo:hi] is the rows
\* at positions i..j, both ends included; df.iloc[i:j] for zero-based
\* positions i <= j within the frame is the rows at positions i..j-1.  Both
\* keep the frame's order.
C4_LabelSliceInclusivePositionSliceHalfOpen ==
    LET t == Now(last.on)
    IN  /\ last.op = "loc" =>
              \A i, j \in 1..nrows(t) :
                  (t.index[i] = last.args.lo /\ t.index[j] = last.args.hi /\ i <= j)
                      => RowsInOrder(res, t, i..j, last.args.cols)
        /\ (last.op = "iloc" /\ last.args.i <= last.args.j /\ last.args.j <= nrows(t))
              => RowsInOrder(res, t, (last.args.i + 1)..last.args.j, res.columns)

\* C4 witness: df.loc['20130102':'20130104', ['A', 'B']] on the notebook's
\* frame is the three rows of the days 2, 3 and 4
C4_Witness ==
    /\ last.op = "loc"
    /\ nrows(Now(last.on)) = Periods
    /\ last.args.lo = 2
    /\ last.args.hi = 4
    /\ last.args.cols = <<"A", "B">>
    /\ res.index = <<2, 3, 4>>

\* C8: df[df[c].isin(S)] is the rows whose cell in column c is a member of S,
\* in their original order and with their cells unchanged; the frame selected
\* from is unchanged; for E = [one, one, two, three, four, three] and
\* S = {two, four} these are the rows at zero-based positions 2 and 4.
C8_IsinKeepsMemberRows ==
    last.op = "isin" =>
        LET t == Now(last.on)
            members == {i \in 1..nrows(t) :
                           at_get(t, t.index[i], last.args.c) \in last.args.values}
        IN  /\ RowsInOrder(res, t, members, t.columns)
            /\ store = last.before
            /\ (last.args.c = "E" /\ getitem(t, "E") = E
                    /\ last.args.values = {two, four})
                  => res.index = <<t.index[2 + 1], t.index[4 + 1]>>

\* C8 witness: df2[df2['E'].isin(['two', 'four'])] of the notebook
C8_Witness ==
    /\ last.op = "isin"
    /\ last.on = "df2"
    /\ last.args.c = "E"
    /\ last.args.values = {two, four}
    /\ getitem(Now("df2"), "E") = E
    /\ res.index = <<3, 5>>
    /\ getitem(res, "E") = <<two, four>>

\* C9: df[df.c > 0] is the rows whose cell in column c is > 0 and no other
\* row; df[df > 0] has the row labels and column labels of df, and every cell
\* that is > 0 keeps its value while every other cell is NaN.
C9_MaskDropsRowsWhereBlanksCells ==
    LET t == Now(last.on)
        Pos(v) == v # NaN /\ v > 0
    IN  /\ last.op = "mask" =>
              RowsInOrder(res, t,
                          {i \in 1..nrows(t) : Pos(at_get(t, t.index[i], last.args.c))},
                          t.columns)
        /\ last.op = "where" =>
              /\ res.index = t.index
              /\ res.columns = t.columns
              /\ \A i \in 1..nrows(t), j \in 1..ncols(t) :
                    iat_get(res, i - 1, j - 1) =
                        IF Pos(iat_get(t, i - 1, j - 1))
                        THEN iat_get(t, i - 1, j - 1) ELSE NaN

\* C9 witness: df[df > 0] on a frame with a cell that is kept, a zero that
\* becomes NaN and a NaN that stays
C9_Witness ==
    /\ last.op = "where"
    /\ \E i \in 1..nrows(res) : iat_get(res, i - 1, 0) = 1
    /\ \E i \in 1..nrows(res) :
          iat_get(Now(last.on), i - 1, 0) = 0 /\ iat_get(res, i - 1, 0) = NaN
    /\ \E i \in 1..nrows(res) : iat_get(Now(last.on), i - 1, 1) = NaN

\* the sort key of the k-th row of the result of the last sort_values
Key(k) == getitem(res, last.args.c)[k]

\* res holds every row of t once, each with its cells unchanged, under t's
\* column labels
IsRowPermutation(r, t) ==
    /\ r.columns = t.columns
    /\ Len(r.data) = ncols(t)
    /\ Len(r.index) = nrows(t)
    /\ \A i \in 1..nrows(t) : \E k \in 1..Len(r.index) : r.index[k] = t.index[i]
    /\ \A k \in 1..Len(r.index) : \E i \in 1..nrows(t) :
          /\ r.index[k] = t.index[i]
          /\ \A j \in 1..ncols(t) :
                Len(r.data[j]) = nrows(t) /\ r.data[j][k] = t.data[j][i]

\* the rows of res are ordered by the sort key in the direction asked for,
\* the rows without a key last
IsOrdered ==
    \A k, l \in 1..nrows(res) :
        k < l =>
            \/ Key(l) = NaN
            \/ /\ Key(k) # NaN
               /\ IF last.args.ascending THEN Key(k) <= Key(l) ELSE Key(k) >= Key(l)

\* rows of res with equal sort keys are in the order they have in t
KeepsOrderOfEqualKeys(t) ==
    \A k, l \in 1..nrows(res) :
        (k < l /\ Key(k) = Key(l)) =>
            \A i, m \in 1..nrows(t) :
                (t.index[i] = res.index[k] /\ t.index[m] = res.index[l]) => i < m

---------------------------------------------------------------------------
(* The notebook's own run: df as constructed, then the statements of the   *)
(* isin example and of the Setting section, in the order of the notebook   *)
(* and with the notebook's arguments.  nops is the statement reached.      *)

\* s1 = pd.Series([1, 2, 3, 4, 5, 6], index=pd.date_range('20130102', periods=6))
s1 == Series(<<1, 2, 3, 4, 5, 6>>, date_range(2, Periods))

\* the statement at place k of the run, assigning through the name n
Step(k, op, n, args, out) ==
    /\ nops = k
    /\ Assign(op, n, args, out)

InitNotebook ==
    /\ \E values \in randn(Periods, Len(ABCD)) :
          store = <<DataFrame(values, dates, ABCD)>>
    /\ df = 1
    /\ df2 = 0
    /\ res = NoFrame
    /\ last = [op |-> "DataFrame", on |-> "df", args |-> <<>>, err |-> "none",
               before |-> <<>>]
    /\ nops = 0

\* df2 = df.copy()
NbCopy ==
    /\ nops = 0
    /\ LET c == copy_stmt(store, df, df2)
       IN  /\ store' = c.store
           /\ df2' = c.ref
    /\ last' = Stmt("copy", "df", <<>>, "none")
    /\ nops' = nops + 1
    /\ UNCHANGED <<df, res>>

\* df2['E'] = ['one', 'one', 'two', 'three', 'four', 'three']
NbSetE ==
    Step(1, "setitem_array", "df2", [c |-> "E", arr |-> E],
         setitem_array(store[df2], "E", E))

\* df2[df2['E'].isin(['two', 'four'])]
NbIsin ==
    /\ nops = 2
    /\ res' = getitem_mask(store[df2], isin(getitem(store[df2], "E"), {two, four}))
    /\ last' = Stmt("isin", "df2", [c |-> "E", values |-> {two, four}], "none")
    /\ nops' = nops + 1
    /\ UNCHANGED <<store, df, df2>>

\* df['F'] = s1
NbSetF ==
    Step(3, "setitem_series", "df", [c |-> "F", s |-> s1],
         setitem_series(store[df], "F", s1))

\* df.at[dates[0], 'A'] = 0
NbAt ==
    Step(4, "at_set", "df", [r |-> dates[0 + 1], c |-> "A", v |-> 0],
         at_set(store[df], dates[0 + 1], "A", 0))

\* df.iat[0, 1] = 0
NbIat ==
    Step(5, "iat_set", "df", [i |-> 0, j |-> 1, v |-> 0],
         iat_set(store[df], 0, 1, 0))

\* df.loc[:, 'D'] = np.array([5] * len(df))
NbLoc ==
    Step(6, "loc_set", "df",
         [key |-> [all |-> TRUE, lo |-> 0, hi |-> 0], c |-> "D",
          arr |-> full(nrows(store[df]), 5)],
         loc_set(store[df], [all |-> TRUE, lo |-> 0, hi |-> 0], "D",
                 full(nrows(store[df]), 5)))

NextNotebook == NbCopy \/ NbSetE \/ NbIsin \/ NbSetF \/ NbAt \/ NbIat \/ NbLoc

SpecNotebook == InitNotebook /\ [][NextNotebook]_vars

\* the frame df names has the notebook's row labels and the columns A, B, C,
\* D, F, zeros in the first row of A and B, d in every row of D, and in F NaN
\* in the first row and f1, f2, f3, f4, f5 in the rows after it
ResultIs(d, f1, f2, f3, f4, f5) ==
    LET t == Now("df")
    IN  /\ t.index = dates
        /\ t.columns = <<"A", "B", "C", "D", "F">>
        /\ at_get(t, dates[1], "A") = 0
        /\ at_get(t, dates[1], "B") = 0
        /\ getitem(t, "D") = <<d, d, d, d, d, d>>
        /\ getitem(t, "F") = <<NaN, f1, f2, f3, f4, f5>>

===========================================================================
